---- MODULE Spec2Model ----
(***************************************************************************)
(* A model of the toy S3 object store: the bucket and object handlers of   *)
(* routers/buckets.py and routers/objects.py over three resources, the     *)
(* SQLite tables of shared.py (buckets, objects), the directory tree under *)
(* config.OBJECT_STORAGE_DIR, and the module-level METADATA_CACHE.         *)
(*                                                                         *)
(* Specification Spec runs the handlers one call at a time (each action is *)
(* one complete call).  Every filesystem call and every metadata statement *)
(* a handler makes may fail; an action's "fail" input names the call that  *)
(* raises.  The SELECT statements are taken to succeed: a failing one ends *)
(* its call with a 500 and changes nothing.                                *)
(*                                                                         *)
(* SpecLRU and SpecCT run the same handlers from a populated store, over   *)
(* more keys and over the content-type inputs.  SpecConc keeps two         *)
(* requests in flight and interleaves them at the awaits of the handlers.  *)
(* SpecDir runs put_object and delete_object over nested keys, and         *)
(* SpecRows is SpecConc with the objects table held as a set of rows.      *)
(***************************************************************************)
EXTENDS Integers, Sequences, FiniteSets, TLC

\* ------------------------------------------------------------------ bounds

\* Number of uuid4 values drawn in one behaviour (one per Put that passes
\* validation).
MaxUuid == 2

\* Chunk length of the streaming loops (8192 in the source, scaled down so
\* that a payload of the model spans several chunks).
ChunkSize == 2

\* config.OBJECT_METADATA_CACHE_SIZE, scaled down so that eviction happens
\* (SpecLRU has one key more than the cache holds).
CacheSize == 2

\* Longest sequence of get_object calls of SpecLRU.
MaxAccess == 5

\* --------------------------------------------------------------- universes

None == "None"

Buckets == {"b1"}

\* Names a caller may pass to create_bucket: the valid ones, the empty name
\* and a whitespace-only name.
BucketNames == Buckets \cup {"", " "}

\* Object keys, as the sequence of their "/"-separated segments.  No key of
\* the model is a directory prefix of another one.
Keys == {<<"a.txt">>, <<"d", "x">>}

EmptyKey == <<>>

Slots == Buckets \X Keys

\* Upload payloads, as byte sequences: one shorter than a chunk, one longer.
Payloads == {<<1>>, <<2, 1, 2>>}

\* Content-Type header values of a request (None: no header).  Under Spec
\* the callers send none, so the type comes from the upload or the key.
ClientTypes == {None}

\* file.content_type of the upload (None: not set).
UploadTypes == {"application/octet-stream"}

\* ----------------------------------------------------------------- helpers

\* Mutant of IsBlank: only the empty name counts as blank.
IsBlank_EmptyOnly(name) == name = ""

\* str.strip() of a bucket name is empty.
IsBlank(name) == name \in {"", " "}

\* os.path.join(config.OBJECT_STORAGE_DIR, bucket_name): a path is the
\* sequence of its segments below OBJECT_STORAGE_DIR.
BucketDataPath(b) == <<b>>

construct_storage_path(b, k) == BucketDataPath(b) \o k

\* os.path.dirname
Dirname(p) == SubSeq(p, 1, Len(p) - 1)

\* p lies strictly below directory d.
IsBelow(p, d) == Len(p) > Len(d) /\ SubSeq(p, 1, Len(d)) = d

\* The directories os.makedirs(d) walks, outermost first.
DirChain(d) == [i \in 1..Len(d) |-> SubSeq(d, 1, i)]

\* mimetypes.guess_type(object_key)[0], by the extension of the last segment.
GuessType(k) ==
    IF k # <<>> /\ k[Len(k)] = "a.txt" THEN "text/plain" ELSE None

\* hashlib.md5: update() folds a chunk's bytes into the running state, and
\* hexdigest() reads it.  The digest is modelled collision-free on the
\* payloads of the model (a positional encoding of the bytes seen).
Md5Init == 1

RECURSIVE Md5Update(_, _)
Md5Update(h, chunk) ==
    IF chunk = <<>> THEN h
    ELSE Md5Update(h * 4 + Head(chunk), Tail(chunk))

\* The digest of a whole payload, taken in one piece.
Md5(p) == Md5Update(Md5Init, p)

Min(a, b) == IF a < b THEN a ELSE b

\* file.read(8192) at offset pos: the next chunk, empty at end of stream.
ReadChunk(p, pos) == SubSeq(p, pos + 1, Min(Len(p), pos + ChunkSize))

NumChunks(p) == (Len(p) + ChunkSize - 1) \div ChunkSize

\* Mutant of WriteLoop: the loop body runs once ("if" for "while").
WriteLoop_FirstChunkOnly(p, pos, content, h, size, limit) ==
    LET chunk == ReadChunk(p, pos) IN
    IF chunk = <<>> \/ limit = 0
    THEN [content |-> content, md5 |-> h, size |-> size]
    ELSE [content |-> content \o chunk, md5 |-> Md5Update(h, chunk),
          size |-> size + Len(chunk)]

\* The streaming loop of put_object: chunks are read until an empty one,
\* each is appended to the file, folded into the digest and counted.  It
\* stops early after `limit` chunks (the I/O call for the next chunk raises).
RECURSIVE WriteLoop(_, _, _, _, _, _)
WriteLoop(p, pos, content, h, size, limit) ==
    LET chunk == ReadChunk(p, pos) IN
    IF chunk = <<>> \/ limit = 0
    THEN [content |-> content, md5 |-> h, size |-> size]
    ELSE WriteLoop(p, pos + Len(chunk), content \o chunk,
                   Md5Update(h, chunk), size + Len(chunk), limit - 1)

\* Partial functions: rows and files exist iff they are in the domain.
Without(f, x) == [y \in (DOMAIN f) \ {x} |-> f[y]]

With(f, x, v) == [y \in (DOMAIN f) \cup {x} |-> IF y = x THEN v ELSE f[y]]

\* --------------------------------------------------- cachetools.LRUCache
\* The cache is the sequence of its entries, least recently used first.

CacheHas(c, key) == \E i \in 1..Len(c) : c[i].key = key

CacheIndex(c, key) == CHOOSE i \in 1..Len(c) : c[i].key = key

CacheValue(c, key) == c[CacheIndex(c, key)].meta

RemoveAt(c, i) == SubSeq(c, 1, i - 1) \o SubSeq(c, i + 1, Len(c))

\* del METADATA_CACHE[key]
CacheDel(c, key) == RemoveAt(c, CacheIndex(c, key))

\* Mutant of CacheTouch: a hit leaves the order as it is.
CacheTouch_NoRefresh(c, key) == c

\* METADATA_CACHE[key] (a hit): the entry becomes the most recently used.
CacheTouch(c, key) ==
    LET i == CacheIndex(c, key) IN Append(RemoveAt(c, i), c[i])

\* popitem() until the new entry fits.
RECURSIVE EvictFor(_)
EvictFor(c) == IF Len(c) + 1 > CacheSize /\ c # <<>> THEN EvictFor(Tail(c)) ELSE c

\* METADATA_CACHE[key] = meta
CacheSet(c, key, meta) ==
    IF CacheHas(c, key)
    THEN Append(CacheDel(c, key), [key |-> key, meta |-> meta])
    ELSE Append(EvictFor(c), [key |-> key, meta |-> meta])

\* Mutant of InvalidateCache: the entry is never dropped.
InvalidateCache_Noop(c, key) == c

\* if cache_key in METADATA_CACHE: del METADATA_CACHE[cache_key]
InvalidateCache(c, key) == IF CacheHas(c, key) THEN CacheDel(c, key) ELSE c

\* ------------------------------------------------------------------- state

VARIABLES
    buckets,    \* rows of table buckets: the set of names
    objects,    \* rows of table objects: <<bucket, key>> -> row
    dirs,       \* directories below OBJECT_STORAGE_DIR
    files,      \* regular files below OBJECT_STORAGE_DIR: path -> bytes
    cache,      \* METADATA_CACHE
    uuid_next,  \* number of uuid4 values drawn so far, plus one
    resp,       \* the last call and its response (fault: the call of
                \* delete_object that was made to raise)
    hist,       \* history: per slot, the last call that settled its state
    inflight,   \* requests in flight: per task, its position and locals
    accessed    \* history: the slots get_object was called for, in order

vars == <<buckets, objects, dirs, files, cache, uuid_next, resp, hist,
          inflight, accessed>>

\* PRAGMA foreign_keys: get_db opens each connection without setting it, so
\* SQLite's default applies and ON DELETE CASCADE is not enforced.
ForeignKeysEnabled == FALSE

NoResp ==
    [op |-> "init", bucket |-> "", key |-> <<>>, status |-> 0, kind |-> "",
     body |-> <<>>, etag |-> 0, size |-> 0, ctype |-> None,
     cct |-> None, uct |-> None, fault |-> "none"]

\* A response without object data.
Reply(op, b, k, status, kind) ==
    [op |-> op, bucket |-> b, key |-> k, status |-> status, kind |-> kind,
     body |-> <<>>, etag |-> 0, size |-> 0, ctype |-> None,
     cct |-> None, uct |-> None, fault |-> "none"]

NoHist ==
    [op |-> "none", payload |-> <<>>, clean |-> TRUE, cachedBefore |-> FALSE]

\* hist[s].op is "put" or "delete" after a successful put_object or
\* delete_object of the slot, "partial" after a delete_object whose row
\* delete failed, "delete_bucket" after a successful delete of the bucket
\* of a slot that had a row; after a put or a delete, cachedBefore tells
\* whether the cache held the slot when that call began.  A later call that may have changed the
\* slot's row or blob without settling it clears hist[s].clean.
Touched(h, slots) ==
    [s \in Slots |->
        IF s \in slots /\ h[s].op # "none" THEN [h[s] EXCEPT !.clean = FALSE]
        ELSE h[s]]

SlotsOf(b) == {s \in Slots : s[1] = b}

\* init_db: empty tables, an empty storage directory, an empty cache.
Init ==
    /\ buckets = {}
    /\ objects = <<>>
    /\ dirs = {}
    /\ files = <<>>
    /\ cache = <<>>
    /\ uuid_next = 1
    /\ resp = NoResp
    /\ hist = [s \in Slots |-> NoHist]
    /\ inflight = <<>>
    /\ accessed = <<>>

\* ------------------------------------------------------ routers/buckets.py

CreateFailures == {"none", "insert", "makedirs"}

\* create_bucket: PUT /buckets/{bucket_name}
create_bucket(name, fail) ==
    /\ UNCHANGED <<objects, files, cache, uuid_next, hist>>
    /\ IF IsBlank(name) THEN
           /\ fail = "none"
           /\ resp' = Reply("create_bucket", name, <<>>, 400, "InvalidArgument")
           /\ UNCHANGED <<buckets, dirs>>
       ELSE IF fail = "insert" THEN
           \* INSERT raises something other than IntegrityError: rollback
           /\ resp' = Reply("create_bucket", name, <<>>, 500, "MetadataFailure")
           /\ UNCHANGED <<buckets, dirs>>
       ELSE IF name \in buckets THEN
           /\ fail = "none"
           /\ resp' = Reply("create_bucket", name, <<>>, 409, "Conflict")
           /\ UNCHANGED <<buckets, dirs>>
       ELSE
           \* the row is committed before the directory is made
           /\ buckets' = buckets \cup {name}
           /\ IF fail = "makedirs" THEN
                  /\ resp' = Reply("create_bucket", name, <<>>, 500, "StorageFailure")
                  /\ UNCHANGED dirs
              ELSE
                  /\ dirs' = dirs \cup {BucketDataPath(name)}
                  /\ resp' = Reply("create_bucket", name, <<>>, 201, "OK")

\* head_bucket: HEAD /buckets/{bucket_name}
head_bucket(name) ==
    /\ UNCHANGED <<buckets, objects, dirs, files, cache, uuid_next, hist>>
    /\ resp' = IF name \in buckets
               THEN Reply("head_bucket", name, <<>>, 200, "OK")
               ELSE Reply("head_bucket", name, <<>>, 404, "NotFound")

\* What a shutil.rmtree(root) that raises part-way may have removed: a set
\* of files R and of directories D below root, a directory only once
\* everything below it is gone.  The root itself is still there.
PartialRemovals(root) ==
    LET fs == {p \in DOMAIN files : IsBelow(p, root)}
        ds == {d \in dirs : IsBelow(d, root)}
    IN  {rd \in (SUBSET fs) \X (SUBSET ds) :
            \A d \in rd[2] :
                /\ \A p \in fs : IsBelow(p, d) => p \in rd[1]
                /\ \A e \in ds : IsBelow(e, d) => e \in rd[2]}

\* ON DELETE CASCADE of objects.bucket_name, when the connection enforces
\* foreign keys.
CascadeObjects(objs, b) ==
    IF ForeignKeysEnabled
    THEN [s \in {t \in DOMAIN objs : t[1] # b} |-> objs[s]]
    ELSE objs

\* Mutant of BucketsAfterRmtreeError: the row is deleted before the tree.
BucketsAfterRmtreeError_RowFirst(bs, name) == bs \ {name}

\* The buckets table after shutil.rmtree raised: the handler re-raises
\* before its DELETE statement, and the rollback leaves the table as it was.
BucketsAfterRmtreeError(bs, name) == bs

DeleteBucketFailures == {"none", "rmtree", "dbdelete"}

\* delete_bucket_endpoint: DELETE /buckets/{bucket_name}
delete_bucket_endpoint(name, fail) ==
    LET root == BucketDataPath(name) IN
    /\ UNCHANGED <<cache, uuid_next>>
    /\ IF name \notin buckets THEN
           /\ fail = "none"
           /\ resp' = Reply("delete_bucket", name, <<>>, 404, "NotFound")
           /\ UNCHANGED <<buckets, objects, dirs, files, hist>>
       ELSE IF fail = "rmtree" THEN
           \* shutil.rmtree raises OSError: nothing is deleted from the tables
           /\ root \in dirs
           /\ \E rd \in PartialRemovals(root) :
                  /\ files' = [p \in (DOMAIN files) \ rd[1] |-> files[p]]
                  /\ dirs' = dirs \ rd[2]
           /\ resp' = Reply("delete_bucket", name, <<>>, 500, "StorageFailure")
           /\ hist' = Touched(hist, SlotsOf(name))
           /\ buckets' = BucketsAfterRmtreeError(buckets, name)
           /\ UNCHANGED objects
       ELSE
           \* the tree is removed (when there is one), then the row
           /\ files' = [p \in {q \in DOMAIN files : ~IsBelow(q, root)} |-> files[p]]
           /\ dirs' = {d \in dirs : d # root /\ ~IsBelow(d, root)}
           /\ IF fail = "dbdelete" THEN
                  \* DELETE or commit raises: rollback, the tree is gone
                  /\ resp' = Reply("delete_bucket", name, <<>>, 500, "MetadataFailure")
                  /\ hist' = Touched(hist, SlotsOf(name))
                  /\ UNCHANGED <<buckets, objects>>
              ELSE
                  /\ buckets' = buckets \ {name}
                  /\ objects' = CascadeObjects(objects, name)
                  /\ resp' = Reply("delete_bucket", name, <<>>, 204, "OK")
                  /\ hist' = [s \in Slots |->
                                 IF s \in SlotsOf(name) /\ s \in DOMAIN objects
                                 THEN [op |-> "delete_bucket", payload |-> <<>>,
                                       clean |-> TRUE, cachedBefore |-> FALSE]
                                 ELSE Touched(hist, SlotsOf(name))[s]]

\* ------------------------------------------------------ routers/objects.py

\* Mutant of FinalContentType: the key's extension is asked before the
\* upload's own type.
FinalContentType_GuessFirst(cct, uct, k) ==
    IF cct \notin {None, ""} THEN cct
    ELSE IF GuessType(k) \notin {None, ""} THEN GuessType(k)
    ELSE IF uct \notin {None, ""} /\ uct # "application/octet-stream" THEN uct
    ELSE "application/octet-stream"

\* The content type put_object stores: the Content-Type header if there is
\* one, else the upload's own type unless it is the generic one, else the
\* type guessed from the key, else the generic one.  The tests are Python
\* truth tests: None and the empty string both fail them.
FinalContentType(cct, uct, k) ==
    IF cct \notin {None, ""} THEN cct
    ELSE IF uct \notin {None, ""} /\ uct # "application/octet-stream" THEN uct
    ELSE IF GuessType(k) \notin {None, ""} THEN GuessType(k)
    ELSE "application/octet-stream"

\* os.makedirs(d, exist_ok=True), stopped after `made` new directories
\* (Len(d) or more: not stopped).
Makedirs(ds, d, made) ==
    LET chain == DirChain(d)
        missing == {i \in 1..Len(d) : chain[i] \notin ds}
    IN  ds \cup {chain[i] : i \in {j \in missing :
                    Cardinality({m \in missing : m < j}) < made}}

MissingDirs(ds, d) == Cardinality({i \in 1..Len(d) : DirChain(d)[i] \notin ds})

\* if os.path.exists(path): os.remove(path)
RemoveIfExists(fs, path) == IF path \in DOMAIN fs THEN Without(fs, path) ELSE fs

\* INSERT ... ON CONFLICT(bucket_name, object_key) DO UPDATE SET ...
UpsertObject(objs, b, k, row) == With(objs, <<b, k>>, row)

\* Mutant of PutCacheStep: put_object leaves the cache alone.
PutCacheStep_Keep(c, key) == c

\* The cache step that ends a successful put_object.
PutCacheStep(c, key) == InvalidateCache(c, key)

\* Mutant of KeyIsEmpty: no key is refused.
KeyIsEmpty_Never(k) == FALSE

\* if not object_key
KeyIsEmpty(k) == k = EmptyKey

PutFailures == {"none", "makedirs", "open", "write", "upsert"}

\* put_object: PUT /objects/{bucket_name}/{object_key:path}
\*   fail     the call that raises ("none": no call does)
\*   n        "makedirs": directories made before it raised;
\*            "write": chunks written before the loop raised
\*   cleanup  whether the os.remove of the except block succeeds
put_object(b, k, p, cct, uct, fail, n, cleanup) ==
    LET path == construct_storage_path(b, k)
        target_dir == Dirname(path)
        slot == <<b, k>>
        full == WriteLoop(p, 0, <<>>, Md5Init, 0, NumChunks(p) + 1)
        part == WriteLoop(p, 0, <<>>, Md5Init, 0, n)
        ctype == FinalContentType(cct, uct, k)
        row == [internal_storage_id |-> uuid_next, storage_path |-> path,
                size_bytes |-> full.size, etag |-> full.md5,
                content_type |-> ctype]
        alldirs == Makedirs(dirs, target_dir, Len(target_dir))
    IN
    IF b \notin buckets THEN
        /\ fail = "none" /\ n = 0 /\ cleanup
        /\ resp' = Reply("put", b, k, 404, "NotFound")
        /\ UNCHANGED <<buckets, objects, dirs, files, cache, uuid_next, hist>>
    ELSE IF KeyIsEmpty(k) THEN
        /\ fail = "none" /\ n = 0 /\ cleanup
        /\ resp' = Reply("put", b, k, 400, "InvalidArgument")
        /\ UNCHANGED <<buckets, objects, dirs, files, cache, uuid_next, hist>>
    ELSE
        /\ uuid_next <= MaxUuid
        /\ uuid_next' = uuid_next + 1
        /\ UNCHANGED buckets
        /\ CASE fail = "makedirs" ->
                \* os.makedirs raises OSError after n directories
                /\ n < MissingDirs(dirs, target_dir) /\ cleanup
                /\ dirs' = Makedirs(dirs, target_dir, n)
                /\ resp' = Reply("put", b, k, 500, "StorageFailure")
                /\ UNCHANGED <<objects, files, cache, hist>>
             [] fail = "open" ->
                \* open(path, "wb") raises: the file is as it was, and the
                \* except block removes it if it exists
                /\ n = 0
                /\ cleanup \/ path \in DOMAIN files
                /\ dirs' = alldirs
                /\ files' = IF cleanup THEN RemoveIfExists(files, path) ELSE files
                /\ resp' = IF cleanup
                           THEN Reply("put", b, k, 500, "StorageFailure")
                           ELSE Reply("put", b, k, 500, "Unhandled")
                /\ hist' = Touched(hist, {slot})
                /\ UNCHANGED <<objects, cache>>
             [] fail = "write" ->
                \* the loop raises after n chunks: the file holds them, and
                \* the except block removes it
                /\ n <= NumChunks(p)
                /\ dirs' = alldirs
                /\ files' = IF cleanup
                            THEN RemoveIfExists(With(files, path, part.content), path)
                            ELSE With(files, path, part.content)
                /\ resp' = IF cleanup
                           THEN Reply("put", b, k, 500, "StorageFailure")
                           ELSE Reply("put", b, k, 500, "Unhandled")
                /\ hist' = Touched(hist, {slot})
                /\ UNCHANGED <<objects, cache>>
             [] fail = "upsert" ->
                \* execute or commit raises: rollback, and the except block
                \* removes the blob just written
                /\ n = 0
                /\ dirs' = alldirs
                /\ files' = IF cleanup
                            THEN RemoveIfExists(With(files, path, full.content), path)
                            ELSE With(files, path, full.content)
                /\ resp' = IF cleanup
                           THEN Reply("put", b, k, 500, "MetadataFailure")
                           ELSE Reply("put", b, k, 500, "Unhandled")
                /\ hist' = Touched(hist, {slot})
                /\ UNCHANGED <<objects, cache>>
             [] fail = "none" ->
                /\ n = 0 /\ cleanup
                /\ dirs' = alldirs
                /\ files' = With(files, path, full.content)
                /\ objects' = UpsertObject(objects, b, k, row)
                /\ cache' = PutCacheStep(cache, slot)
                /\ resp' = [Reply("put", b, k, 201, "OK") EXCEPT
                                !.etag = full.md5, !.ctype = ctype,
                                !.cct = cct, !.uct = uct]
                /\ hist' = [hist EXCEPT ![slot] =
                                [op |-> "put", payload |-> p, clean |-> TRUE,
                                 cachedBefore |-> CacheHas(cache, slot)]]

\* SELECT storage_path, content_type, etag, size_bytes: dict(db_row)
RowMeta(row) ==
    [storage_path |-> row.storage_path, content_type |-> row.content_type,
     etag |-> row.etag, size_bytes |-> row.size_bytes]

\* file_iterator: the file's chunks, read until an empty one, in order.
RECURSIVE ReadLoop(_, _, _)
ReadLoop(content, pos, out) ==
    LET chunk == ReadChunk(content, pos) IN
    IF chunk = <<>> THEN out
    ELSE ReadLoop(content, pos + Len(chunk), out \o chunk)

\* Mutant of GetEvictStep: the entry stays in the cache.
GetEvictStep_Keep(c, key) == c

\* The cache step of get_object when the blob is missing.
GetEvictStep(c, key) == InvalidateCache(c, key)

\* The metadata get_object works with on a cache hit.
GetCachedMeta(c, key) == CacheValue(c, key)

\* get_object: GET /objects/{bucket_name}/{object_key:path}
get_object(b, k) ==
    LET slot == <<b, k>>
        hit == CacheHas(cache, slot)
        found == hit \/ slot \in DOMAIN objects
        object_meta == IF hit THEN GetCachedMeta(cache, slot)
                       ELSE RowMeta(objects[slot])
        cache1 == IF hit THEN CacheTouch(cache, slot)
                  ELSE CacheSet(cache, slot, object_meta)
    IN
    /\ UNCHANGED <<buckets, objects, dirs, files, uuid_next, hist>>
    /\ IF ~found THEN
           /\ resp' = Reply("get", b, k, 404, "NotFound")
           /\ UNCHANGED cache
       ELSE IF object_meta.storage_path \notin DOMAIN files THEN
           /\ cache' = GetEvictStep(cache1, slot)
           /\ resp' = Reply("get", b, k, 500, "Inconsistency")
       ELSE
           /\ cache' = cache1
           /\ resp' = [Reply("get", b, k, 200, "OK") EXCEPT
                           !.body = ReadLoop(files[object_meta.storage_path], 0, <<>>),
                           !.etag = object_meta.etag,
                           !.size = object_meta.size_bytes,
                           !.ctype = object_meta.content_type]

\* os.listdir(d) is empty
IsEmptyDir(ds, fs, d) ==
    /\ \A p \in DOMAIN fs : Dirname(p) # d
    /\ \A e \in ds : Dirname(e) # d

\* The upward walk of delete_object: each empty directory is removed, up to
\* but not including the bucket's directory.
\* Mutant of RemoveEmptyParents: only the blob's own directory is tried.
RemoveEmptyParents_OneLevel(ds, fs, current_dir, bucket_root) ==
    IF current_dir # bucket_root /\ IsEmptyDir(ds, fs, current_dir)
    THEN ds \ {current_dir}
    ELSE ds

RECURSIVE RemoveEmptyParents(_, _, _, _)
RemoveEmptyParents(ds, fs, current_dir, bucket_root) ==
    IF current_dir # bucket_root /\ IsEmptyDir(ds, fs, current_dir)
    THEN RemoveEmptyParents(ds \ {current_dir}, fs, Dirname(current_dir), bucket_root)
    ELSE ds

\* The walk when the os.rmdir after `made` removals raises: it stops there.
RECURSIVE RemoveSomeParents(_, _, _, _, _)
RemoveSomeParents(ds, fs, current_dir, bucket_root, made) ==
    IF made > 0 /\ current_dir # bucket_root /\ IsEmptyDir(ds, fs, current_dir)
    THEN RemoveSomeParents(ds \ {current_dir}, fs, Dirname(current_dir),
                           bucket_root, made - 1)
    ELSE ds

\* Mutant of OsRemove: the file is left in place.
OsRemove_Noop(fs, path) == fs

\* os.remove(storage_path)
OsRemove(fs, path) == Without(fs, path)

\* Mutant of DeleteObjectRow: the row stays.
DeleteObjectRow_Keep(objs, b, k) == objs

\* DELETE FROM objects WHERE bucket_name = ? AND object_key = ?
DeleteObjectRow(objs, b, k) ==
    IF <<b, k>> \in DOMAIN objs THEN Without(objs, <<b, k>>) ELSE objs

\* Mutant of DeleteCacheStep: delete_object leaves the cache alone.
DeleteCacheStep_Keep(c, key) == c

\* The cache step that ends a successful delete_object.
DeleteCacheStep(c, key) == InvalidateCache(c, key)

\* Mutant of ObjectsAfterRemoveError: the row is deleted all the same.
ObjectsAfterRemoveError_RowDeleted(objs, b, k) == DeleteObjectRow(objs, b, k)

\* The objects table when os.remove raised: the handler raises the 500
\* before its DELETE.
ObjectsAfterRemoveError(objs, b, k) == objs

\* "rmdir": the first os.rmdir of the walk raises; "rmdir_later": a later one.
DeleteFailures == {"none", "remove", "listdir", "rmdir", "rmdir_later", "dbdelete"}

\* delete_object: DELETE /objects/{bucket_name}/{object_key:path}
delete_object(b, k, fail) ==
    LET slot == <<b, k>>
        storage_path == objects[slot].storage_path
        bucket_root == BucketDataPath(b)
        current_dir == Dirname(storage_path)
        exists == storage_path \in DOMAIN files
        removed == OsRemove(files, storage_path)
        walks == current_dir # bucket_root
    IN
    /\ UNCHANGED <<buckets, uuid_next>>
    /\ IF slot \notin DOMAIN objects THEN
           /\ fail = "none"
           /\ resp' = Reply("delete", b, k, 404, "NotFound")
           /\ UNCHANGED <<objects, dirs, files, cache, hist>>
       ELSE IF fail = "remove" THEN
           \* os.remove raises OSError: the call ends before the row delete
           /\ exists
           /\ resp' = [Reply("delete", b, k, 500, "StorageFailure") EXCEPT !.fault = fail]
           /\ objects' = ObjectsAfterRemoveError(objects, b, k)
           /\ UNCHANGED <<dirs, files, cache, hist>>
       ELSE IF fail = "listdir" THEN
           \* os.listdir raises OSError inside the same try, after the
           \* file is gone
           /\ exists /\ walks
           /\ files' = removed
           /\ resp' = [Reply("delete", b, k, 500, "StorageFailure") EXCEPT !.fault = fail]
           /\ hist' = Touched(hist, {slot})
           /\ UNCHANGED <<objects, dirs, cache>>
       ELSE
           /\ files' = IF exists THEN removed ELSE files
           /\ IF fail = "rmdir" THEN
                  \* os.rmdir raises OSError: the walk stops, the delete goes on
                  /\ exists /\ walks /\ IsEmptyDir(dirs, removed, current_dir)
                  /\ UNCHANGED dirs
              ELSE IF fail = "rmdir_later" THEN
                  \* a later os.rmdir raises, after some directories went
                  /\ exists
                  /\ \E made \in 1..Len(current_dir) :
                       /\ dirs' = RemoveSomeParents(dirs, removed, current_dir,
                                                    bucket_root, made)
                       /\ Cardinality(dirs \ dirs') = made
                       /\ dirs' # RemoveEmptyParents(dirs, removed, current_dir,
                                                     bucket_root)
              ELSE
                  dirs' = IF exists
                          THEN RemoveEmptyParents(dirs, removed, current_dir, bucket_root)
                          ELSE dirs
           /\ IF fail = "dbdelete" THEN
                  \* execute or commit raises: rollback
                  /\ resp' = [Reply("delete", b, k, 500, "PartialFailure") EXCEPT
                                  !.fault = fail]
                  /\ hist' = [hist EXCEPT ![slot] =
                                  [op |-> "partial", payload |-> <<>>, clean |-> TRUE,
                                   cachedBefore |-> FALSE]]
                  /\ UNCHANGED <<objects, cache>>
              ELSE
                  /\ objects' = DeleteObjectRow(objects, b, k)
                  /\ cache' = DeleteCacheStep(cache, slot)
                  /\ resp' = [Reply("delete", b, k, 204, "OK") EXCEPT !.fault = fail]
                  /\ hist' = [hist EXCEPT ![slot] =
                                  [op |-> "delete", payload |-> <<>>, clean |-> TRUE,
                                   cachedBefore |-> CacheHas(cache, slot)]]

\* One call at a time: each action is a whole handler, from the request to
\* the response, with no request in flight before or after it.
CreateBucket(name, fail) ==
    create_bucket(name, fail) /\ UNCHANGED <<inflight, accessed>>

HeadBucket(name) ==
    head_bucket(name) /\ UNCHANGED <<inflight, accessed>>

DeleteBucket(name, fail) ==
    delete_bucket_endpoint(name, fail) /\ UNCHANGED <<inflight, accessed>>

PutObject(b, k, p, cct, uct, fail, n, cleanup) ==
    put_object(b, k, p, cct, uct, fail, n, cleanup) /\ UNCHANGED <<inflight, accessed>>

GetObject(b, k) ==
    get_object(b, k) /\ UNCHANGED <<inflight, accessed>>

DeleteObject(b, k, fail) ==
    delete_object(b, k, fail) /\ UNCHANGED <<inflight, accessed>>

\* ------------------------------------------------------------ specification

Next ==
    \/ \E name \in BucketNames, fail \in CreateFailures : CreateBucket(name, fail)
    \/ \E name \in Buckets : HeadBucket(name)
    \/ \E name \in Buckets, fail \in DeleteBucketFailures : DeleteBucket(name, fail)
    \/ \E b \in Buckets, k \in Keys \cup {EmptyKey}, p \in Payloads,
          cct \in ClientTypes, uct \in UploadTypes, fail \in PutFailures,
          n \in 0..2, cleanup \in BOOLEAN :
            PutObject(b, k, p, cct, uct, fail, n, cleanup)
    \/ \E b \in Buckets, k \in Keys : GetObject(b, k)
    \/ \E b \in Buckets, k \in Keys, fail \in DeleteFailures : DeleteObject(b, k, fail)

Spec == Init /\ [][Next]_vars

\* ------------------------------------------------- specification: the cache

\* One key more than the cache holds, all in one bucket.
LruKeyNames == <<"k1", "k2", "k3", "k4", "k5">>
LruKeys == {<<LruKeyNames[i]>> : i \in 1..(CacheSize + 1)}
LruSlots == {<<b, k>> : b \in Buckets, k \in LruKeys}
LruPayload == <<1>>

\* The row a put_object of payload p to (b, k) stores as the i-th upload.
StoredRow(b, k, p, i) ==
    LET full == WriteLoop(p, 0, <<>>, Md5Init, 0, NumChunks(p) + 1) IN
    [internal_storage_id |-> i, storage_path |-> construct_storage_path(b, k),
     size_bytes |-> full.size, etag |-> full.md5,
     content_type |-> FinalContentType(None, None, k)]

\* The state after create_bucket and one put_object of LruPayload to every
\* key of LruKeys, in the order of LruKeyNames: a row and a blob per key,
\* nothing cached yet.
InitLRU ==
    /\ buckets = Buckets
    /\ objects = [s \in LruSlots |->
                    StoredRow(s[1], s[2], LruPayload,
                              CHOOSE i \in 1..(CacheSize + 1) : s[2] = <<LruKeyNames[i]>>)]
    /\ dirs = {BucketDataPath(b) : b \in Buckets}
    /\ files = [q \in {construct_storage_path(s[1], s[2]) : s \in LruSlots} |-> LruPayload]
    /\ cache = <<>>
    /\ uuid_next = CacheSize + 2
    /\ resp = NoResp
    /\ hist = [s \in Slots |-> NoHist]
    /\ inflight = <<>>
    /\ accessed = <<>>

\* A get_object call, logged.
LruGet(b, k) ==
    /\ Len(accessed) < MaxAccess
    /\ get_object(b, k)
    /\ accessed' = Append(accessed, <<b, k>>)
    /\ UNCHANGED inflight

NextLRU == \E b \in Buckets, k \in LruKeys : LruGet(b, k)

SpecLRU == InitLRU /\ [][NextLRU]_vars

\* ----------------------------------------- specification: the content type

\* Content-Type headers and upload types of the requests of SpecCT.
CtClientTypes == {None, "", "text/html"}
CtUploadTypes == {None, "application/octet-stream", "image/png"}
CtPayload == <<1>>

\* The state after create_bucket of every bucket.
InitCT ==
    /\ buckets = Buckets
    /\ objects = <<>>
    /\ dirs = {BucketDataPath(b) : b \in Buckets}
    /\ files = <<>>
    /\ cache = <<>>
    /\ uuid_next = 1
    /\ resp = NoResp
    /\ hist = [s \in Slots |-> NoHist]
    /\ inflight = <<>>
    /\ accessed = <<>>

\* A put_object in which no call raises.
CtPut(b, k, cct, uct) ==
    put_object(b, k, CtPayload, cct, uct, "none", 0, TRUE)
    /\ UNCHANGED <<inflight, accessed>>

NextCT ==
    \/ \E b \in Buckets, k \in Keys, cct \in CtClientTypes, uct \in CtUploadTypes :
          CtPut(b, k, cct, uct)
    \/ \E b \in Buckets, k \in Keys : GetObject(b, k)

SpecCT == InitCT /\ [][NextCT]_vars

\* ----------------------------------------- specification: the directories

\* Keys in nested directories: d/e holds x only, d holds e and y.
DirKeys == {<<"d", "e", "x">>, <<"d", "y">>}
DirSlots == {<<b, k>> : b \in Buckets, k \in DirKeys}
DirPayload == <<1>>
DirDeleteFailures == {"none", "rmdir", "rmdir_later"}

\* The state after create_bucket of every bucket.
InitDir ==
    /\ buckets = Buckets
    /\ objects = <<>>
    /\ dirs = {BucketDataPath(b) : b \in Buckets}
    /\ files = <<>>
    /\ cache = <<>>
    /\ uuid_next = 1
    /\ resp = NoResp
    /\ hist = [s \in DirSlots |-> NoHist]
    /\ inflight = <<>>
    /\ accessed = <<>>

\* A put_object in which no call raises.
DirPut(b, k) ==
    put_object(b, k, DirPayload, None, None, "none", 0, TRUE)
    /\ UNCHANGED <<inflight, accessed>>

\* A delete_object in which nothing raises but, possibly, an os.rmdir.
DirDelete(b, k, fail) ==
    delete_object(b, k, fail) /\ UNCHANGED <<inflight, accessed>>

NextDir ==
    \/ \E b \in Buckets, k \in DirKeys : DirPut(b, k)
    \/ \E b \in Buckets, k \in DirKeys, fail \in DirDeleteFailures : DirDelete(b, k, fail)
    \/ \E b \in Buckets, k \in DirKeys : GetObject(b, k)

SpecDir == InitDir /\ [][NextDir]_vars

\* -------------------------------------- specification: requests in flight
\* The handlers are coroutines on one event loop: a handler runs alone
\* from one await to the next.  put_object awaits file.read before every
\* chunk and file.close after the loop; get_object and delete_object
\* await nothing, but the body get_object returns is produced later, a
\* chunk at a time, by file_iterator, and other handlers run in between.

\* The requests in flight at the same time, at most.
Tasks == {"t1", "t2"}

\* The key and the uploads of SpecConc: two payloads of the same length,
\* of more than one chunk.
ConcKeys == {<<"a.txt">>}
ConcPayloads == {<<1, 2, 1>>, <<2, 1, 2>>}

NoMeta == [storage_path |-> <<>>, content_type |-> None, etag |-> 0, size_bytes |-> 0]

\* A task with no request: the locals of a request in flight are
\*   op, pc      the handler and its position
\*   payload     put_object: the upload
\*   pos         the offset of the open file (bytes written or read so far)
\*   md5, size   put_object: hasher and size_bytes
\*   id          put_object: internal_storage_id
\*   fd          "none": no open file; "path": the file at the storage
\*               path; "orphan": that file, unlinked since it was opened
\*   inode       the bytes of the unlinked file
\*   meta, body  get_object: object_meta and the bytes streamed so far
Idle ==
    [op |-> "idle", pc |-> "", bucket |-> "", key |-> <<>>, payload |-> <<>>,
     pos |-> 0, md5 |-> 0, size |-> 0, id |-> 0, fd |-> "none", inode |-> <<>>,
     meta |-> NoMeta, body |-> <<>>]

TaskPath(r) == construct_storage_path(r.bucket, r.key)

\* The bytes of the file a task has open.
FdContent(r, fs) == IF r.fd = "path" THEN fs[TaskPath(r)] ELSE r.inode

Max(a, b) == IF a > b THEN a ELSE b

\* write(chunk) at offset off of a file: the bytes there are overwritten,
\* the file grows as needed, and a gap before off reads as zero bytes.
WriteAt(content, off, chunk) ==
    [i \in 1..Max(Len(content), off + Len(chunk)) |->
        IF i > off /\ i <= off + Len(chunk) THEN chunk[i - off]
        ELSE IF i <= Len(content) THEN content[i]
        ELSE 0]

\* os.remove(path) while tasks have the file open: they keep the unlinked
\* file.  (The remover is a task itself, so with two tasks at most one
\* other task has it open.)
Unlinked(inf, fs, path) ==
    [t \in DOMAIN inf |->
        IF inf[t].fd = "path" /\ TaskPath(inf[t]) = path
        THEN [inf[t] EXCEPT !.fd = "orphan", !.inode = fs[path]]
        ELSE inf[t]]

\* The state after create_bucket of every bucket, no request in flight.
InitConc ==
    /\ buckets = Buckets
    /\ objects = <<>>
    /\ dirs = {BucketDataPath(b) : b \in Buckets}
    /\ files = <<>>
    /\ cache = <<>>
    /\ uuid_next = 1
    /\ resp = NoResp
    /\ hist = [s \in Slots |-> NoHist]
    /\ inflight = [t \in Tasks |-> Idle]
    /\ accessed = <<>>

\* put_object up to its first await: the bucket and key checks, the uuid,
\* os.makedirs and open(path, "wb"), which creates the file or truncates
\* the one that is there.
PutStart(t, b, k, p) ==
    LET path == construct_storage_path(b, k)
        target_dir == Dirname(path)
    IN
    /\ inflight[t].op = "idle"
    /\ UNCHANGED <<buckets, objects, cache, hist, accessed>>
    /\ IF b \notin buckets THEN
           /\ resp' = Reply("put", b, k, 404, "NotFound")
           /\ UNCHANGED <<dirs, files, uuid_next, inflight>>
       ELSE IF KeyIsEmpty(k) THEN
           /\ resp' = Reply("put", b, k, 400, "InvalidArgument")
           /\ UNCHANGED <<dirs, files, uuid_next, inflight>>
       ELSE
           /\ uuid_next <= MaxUuid
           /\ uuid_next' = uuid_next + 1
           /\ dirs' = Makedirs(dirs, target_dir, Len(target_dir))
           /\ files' = With(files, path, <<>>)
           /\ inflight' = [inflight EXCEPT ![t] =
                  [Idle EXCEPT !.op = "put", !.pc = "write", !.bucket = b,
                               !.key = k, !.payload = p, !.md5 = Md5Init,
                               !.id = uuid_next, !.fd = "path"]]
           /\ UNCHANGED resp

\* One turn of the write loop after file.read returned a chunk: the chunk
\* is written at the offset of this handler's open file, hashed, counted.
PutChunk(t) ==
    LET r == inflight[t]
        chunk == ReadChunk(r.payload, r.size)
        r1 == [r EXCEPT !.pos = r.pos + Len(chunk),
                        !.md5 = Md5Update(r.md5, chunk),
                        !.size = r.size + Len(chunk)]
    IN
    /\ r.op = "put" /\ r.pc = "write"
    /\ chunk # <<>>
    /\ UNCHANGED <<buckets, objects, dirs, cache, uuid_next, resp, hist, accessed>>
    /\ IF r.fd = "path"
       THEN /\ files' = With(files, TaskPath(r), WriteAt(files[TaskPath(r)], r.pos, chunk))
            /\ inflight' = [inflight EXCEPT ![t] = r1]
       ELSE /\ files' = files
            /\ inflight' = [inflight EXCEPT ![t] =
                               [r1 EXCEPT !.inode = WriteAt(r.inode, r.pos, chunk)]]

\* put_object after file.read returned no more bytes: the file is closed,
\* and, with no await in between, the row is upserted and committed, the
\* cache entry dropped and the 201 returned.
PutCommit(t) ==
    LET r == inflight[t]
        slot == <<r.bucket, r.key>>
        ctype == FinalContentType(None, None, r.key)
        row == [internal_storage_id |-> r.id, storage_path |-> TaskPath(r),
                size_bytes |-> r.size, etag |-> r.md5, content_type |-> ctype]
    IN
    /\ r.op = "put" /\ r.pc = "write"
    /\ ReadChunk(r.payload, r.size) = <<>>
    /\ objects' = UpsertObject(objects, r.bucket, r.key, row)
    /\ cache' = PutCacheStep(cache, slot)
    /\ resp' = [Reply("put", r.bucket, r.key, 201, "OK") EXCEPT
                    !.etag = r.md5, !.ctype = ctype]
    /\ inflight' = [inflight EXCEPT ![t] = Idle]
    /\ UNCHANGED <<buckets, dirs, files, uuid_next, hist, accessed>>

\* get_object, the handler: the metadata from the cache or the table, the
\* os.path.exists check, and the StreamingResponse with its headers; the
\* file is not opened yet.
GetStart(t, b, k) ==
    LET slot == <<b, k>>
        hit == CacheHas(cache, slot)
        found == hit \/ slot \in DOMAIN objects
        object_meta == IF hit THEN GetCachedMeta(cache, slot)
                       ELSE RowMeta(objects[slot])
        cache1 == IF hit THEN CacheTouch(cache, slot)
                  ELSE CacheSet(cache, slot, object_meta)
    IN
    /\ inflight[t].op = "idle"
    /\ UNCHANGED <<buckets, objects, dirs, files, uuid_next, hist, accessed>>
    /\ IF ~found THEN
           /\ resp' = Reply("get", b, k, 404, "NotFound")
           /\ UNCHANGED <<cache, inflight>>
       ELSE IF object_meta.storage_path \notin DOMAIN files THEN
           /\ cache' = GetEvictStep(cache1, slot)
           /\ resp' = Reply("get", b, k, 500, "Inconsistency")
           /\ UNCHANGED inflight
       ELSE
           /\ cache' = cache1
           /\ inflight' = [inflight EXCEPT ![t] =
                  [Idle EXCEPT !.op = "get", !.pc = "open", !.bucket = b,
                               !.key = k, !.meta = object_meta]]
           /\ UNCHANGED resp

\* The response of a get_object whose body has ended: the status and the
\* headers were fixed by the handler.
Streamed(r) ==
    [Reply("get", r.bucket, r.key, 200, "OK") EXCEPT
        !.body = r.body, !.etag = r.meta.etag,
        !.size = r.meta.size_bytes, !.ctype = r.meta.content_type]

\* file_iterator, first turn: open(file_path, "rb").  When it raises, the
\* except clause prints and the body ends with no byte.
GetOpen(t) ==
    LET r == inflight[t] IN
    /\ r.op = "get" /\ r.pc = "open"
    /\ UNCHANGED <<buckets, objects, dirs, files, cache, uuid_next, hist, accessed>>
    /\ IF r.meta.storage_path \in DOMAIN files
       THEN /\ inflight' = [inflight EXCEPT ![t] = [r EXCEPT !.pc = "read", !.fd = "path"]]
            /\ UNCHANGED resp
       ELSE /\ inflight' = [inflight EXCEPT ![t] = Idle]
            /\ resp' = Streamed(r)

\* file_iterator, one turn: f.read(chunk_size) at the offset of the open
\* file; the chunk is sent, and an empty one ends the body.
GetChunk(t) ==
    LET r == inflight[t]
        chunk == ReadChunk(FdContent(r, files), r.pos)
    IN
    /\ r.op = "get" /\ r.pc = "read"
    /\ UNCHANGED <<buckets, objects, dirs, files, cache, uuid_next, hist, accessed>>
    /\ IF chunk # <<>>
       THEN /\ inflight' = [inflight EXCEPT ![t] =
                   [r EXCEPT !.pos = r.pos + Len(chunk), !.body = r.body \o chunk]]
            /\ UNCHANGED resp
       ELSE /\ inflight' = [inflight EXCEPT ![t] = Idle]
            /\ resp' = Streamed(r)

\* delete_object, which awaits nothing: the whole handler, in which no
\* call raises.  Tasks that have the removed file open keep it.
ConcDelete(t, b, k) ==
    LET path == construct_storage_path(b, k) IN
    /\ inflight[t].op = "idle"
    /\ delete_object(b, k, "none")
    /\ inflight' = IF path \in DOMAIN files /\ path \notin DOMAIN files'
                   THEN Unlinked(inflight, files, path)
                   ELSE inflight
    /\ UNCHANGED accessed

\* shutil.rmtree while tasks have files of the tree open: they keep the
\* unlinked files (a task has one file open at most).
UnlinkedTree(inf, fs, root) ==
    [t \in DOMAIN inf |->
        IF inf[t].fd = "path" /\ IsBelow(TaskPath(inf[t]), root)
        THEN [inf[t] EXCEPT !.fd = "orphan", !.inode = fs[TaskPath(inf[t])]]
        ELSE inf[t]]

\* delete_bucket_endpoint, which awaits nothing: the whole handler, in
\* which no call raises.
ConcDeleteBucket(t, name) ==
    /\ inflight[t].op = "idle"
    /\ delete_bucket_endpoint(name, "none")
    /\ inflight' = IF name \in buckets /\ BucketDataPath(name) \in dirs
                   THEN UnlinkedTree(inflight, files, BucketDataPath(name))
                   ELSE inflight
    /\ UNCHANGED accessed

NextConc ==
    \/ \E t \in Tasks, b \in Buckets, k \in ConcKeys, p \in ConcPayloads : PutStart(t, b, k, p)
    \/ \E t \in Tasks : PutChunk(t)
    \/ \E t \in Tasks : PutCommit(t)
    \/ \E t \in Tasks, b \in Buckets, k \in ConcKeys : GetStart(t, b, k)
    \/ \E t \in Tasks : GetOpen(t)
    \/ \E t \in Tasks : GetChunk(t)
    \/ \E t \in Tasks, b \in Buckets, k \in ConcKeys : ConcDelete(t, b, k)
    \/ \E t \in Tasks, name \in Buckets : ConcDeleteBucket(t, name)

SpecConc == InitConc /\ [][NextConc]_vars

\* -------------------------------------- specification: the objects table
\* Under SpecRows the variable objects is the table itself, the set of its
\* rows with the columns the handlers use (id and last_modified are left
\* out), so that one row per (bucket_name, object_key) is a property of
\* the statements and not of the representation; hist maps the
\* internal_storage_id of every put_object that committed to the row it
\* wrote.  Requests are in flight as under SpecConc.

\* SELECT ... FROM objects WHERE bucket_name = ? AND object_key = ?
SelectObjects(table, b, k) == {r \in table : r.bucket_name = b /\ r.object_key = k}

\* Mutant of UpsertStmt: the SET list lacks size_bytes and etag.
UpsertStmt_ShortSetList(table, new) ==
    LET old == SelectObjects(table, new.bucket_name, new.object_key) IN
    IF old = {} THEN table \cup {new}
    ELSE (table \ old) \cup
         {[r EXCEPT !.internal_storage_id = new.internal_storage_id,
                    !.storage_path = new.storage_path,
                    !.content_type = new.content_type] : r \in old}

\* INSERT INTO objects (...) VALUES (...) ON CONFLICT(bucket_name,
\* object_key) DO UPDATE SET internal_storage_id, storage_path, size_bytes,
\* etag, content_type = excluded.*: the row is inserted, or, when a row has
\* the same bucket_name and object_key, that row gets the five new values.
UpsertStmt(table, new) ==
    LET old == SelectObjects(table, new.bucket_name, new.object_key) IN
    IF old = {} THEN table \cup {new}
    ELSE (table \ old) \cup
         {[r EXCEPT !.internal_storage_id = new.internal_storage_id,
                    !.storage_path = new.storage_path,
                    !.size_bytes = new.size_bytes,
                    !.etag = new.etag,
                    !.content_type = new.content_type] : r \in old}

InitRows ==
    /\ buckets = Buckets
    /\ objects = {}
    /\ dirs = {BucketDataPath(b) : b \in Buckets}
    /\ files = <<>>
    /\ cache = <<>>
    /\ uuid_next = 1
    /\ resp = NoResp
    /\ hist = <<>>
    /\ inflight = [t \in Tasks |-> Idle]
    /\ accessed = <<>>

\* put_object after file.read returned no more bytes, as PutCommit, with
\* the statement run on the table.
RowsCommit(t) ==
    LET r == inflight[t]
        slot == <<r.bucket, r.key>>
        ctype == FinalContentType(None, None, r.key)
        new == [bucket_name |-> r.bucket, object_key |-> r.key,
                internal_storage_id |-> r.id, storage_path |-> TaskPath(r),
                size_bytes |-> r.size, etag |-> r.md5, content_type |-> ctype]
    IN
    /\ r.op = "put" /\ r.pc = "write"
    /\ ReadChunk(r.payload, r.size) = <<>>
    /\ objects' = UpsertStmt(objects, new)
    /\ cache' = PutCacheStep(cache, slot)
    /\ resp' = [Reply("put", r.bucket, r.key, 201, "OK") EXCEPT
                    !.etag = r.md5, !.ctype = ctype]
    /\ hist' = With(hist, r.id, new)
    /\ inflight' = [inflight EXCEPT ![t] = Idle]
    /\ UNCHANGED <<buckets, dirs, files, uuid_next, accessed>>

\* get_object, the handler, as GetStart, with the SELECT run on the table
\* (fetchone: a row of the result).
RowsGetStart(t, b, k) ==
    LET slot == <<b, k>>
        hit == CacheHas(cache, slot)
        rows == SelectObjects(objects, b, k)
        found == hit \/ rows # {}
        object_meta == IF hit THEN GetCachedMeta(cache, slot)
                       ELSE RowMeta(CHOOSE r \in rows : TRUE)
        cache1 == IF hit THEN CacheTouch(cache, slot)
                  ELSE CacheSet(cache, slot, object_meta)
    IN
    /\ inflight[t].op = "idle"
    /\ UNCHANGED <<buckets, objects, dirs, files, uuid_next, hist, accessed>>
    /\ IF ~found THEN
           /\ resp' = Reply("get", b, k, 404, "NotFound")
           /\ UNCHANGED <<cache, inflight>>
       ELSE IF object_meta.storage_path \notin DOMAIN files THEN
           /\ cache' = GetEvictStep(cache1, slot)
           /\ resp' = Reply("get", b, k, 500, "Inconsistency")
           /\ UNCHANGED inflight
       ELSE
           /\ cache' = cache1
           /\ inflight' = [inflight EXCEPT ![t] =
                  [Idle EXCEPT !.op = "get", !.pc = "open", !.bucket = b,
                               !.key = k, !.meta = object_meta]]
           /\ UNCHANGED resp

NextRows ==
    \/ \E t \in Tasks, b \in Buckets, k \in ConcKeys, p \in ConcPayloads : PutStart(t, b, k, p)
    \/ \E t \in Tasks : PutChunk(t)
    \/ \E t \in Tasks : RowsCommit(t)
    \/ \E t \in Tasks, b \in Buckets, k \in ConcKeys : RowsGetStart(t, b, k)
    \/ \E t \in Tasks : GetOpen(t)
    \/ \E t \in Tasks : GetChunk(t)

SpecRows == InitRows /\ [][NextRows]_vars

\* ------------------------------------------------------------------ claims

SlotOf(r) == <<r.bucket, r.key>>

\* The blob a row points at is present and has the row's fingerprint.
BlobMatches(s) ==
    /\ objects[s].storage_path \in DOMAIN files
    /\ Md5(files[objects[s].storage_path]) = objects[s].etag

\* The blob at path p is the same before and after a step.
BlobUnchanged(p) ==
    /\ p \in DOMAIN files <=> p \in DOMAIN files'
    /\ p \in DOMAIN files => files'[p] = files[p]

\* C1: between calls, every object row has a blob at its storage_path whose
\* digest is the row's fingerprint, whichever calls failed before.
C1_RowsHaveMatchingBlobs == \A s \in DOMAIN objects : BlobMatches(s)

\* C2: a GetObject of a slot whose last mutation is a successful PutObject of
\* payload P (nothing has touched the slot since) returns the bytes of P, the
\* size |P| and the digest of P.
C2_PutThenGet ==
    (resp.op = "get" /\ SlotOf(resp) \in Slots) =>
        LET h == hist[SlotOf(resp)] IN
        (h.op = "put" /\ h.clean) =>
            /\ resp.status = 200
            /\ resp.body = h.payload
            /\ resp.size = Len(h.payload)
            /\ resp.etag = Md5(h.payload)

\* C2's case: the Put overwrote a slot the cache held, its payload spans
\* several chunks, and the Get has answered.
C2_Witness ==
    /\ resp.op = "get" /\ resp.status = 200
    /\ SlotOf(resp) \in Slots
    /\ hist[SlotOf(resp)].op = "put"
    /\ hist[SlotOf(resp)].clean
    /\ hist[SlotOf(resp)].cachedBefore
    /\ resp.body = <<2, 1, 2>>

\* C3: a GetObject never answers with metadata older than the slot's last
\* successful PutObject or DeleteObject: what it returns is the current row,
\* which after a Put is that Put's row, and after a Delete it is NotFound.
C3_CacheCoherence ==
    (resp.op = "get" /\ SlotOf(resp) \in Slots) =>
        LET s == SlotOf(resp)
            h == hist[s]
        IN  /\ resp.status = 200 =>
                /\ s \in DOMAIN objects
                /\ resp.etag = objects[s].etag
                /\ resp.size = objects[s].size_bytes
                /\ resp.ctype = objects[s].content_type
            /\ (h.op = "put" /\ resp.status = 200) =>
                /\ resp.etag = Md5(h.payload)
                /\ resp.size = Len(h.payload)
            /\ h.op = "delete" => resp.kind = "NotFound"

\* C3's case: the cache held the slot's previous row when the Put began,
\* later calls touched the slot, and a Get has answered with the Put's row.
C3_Witness ==
    /\ resp.op = "get" /\ resp.status = 200
    /\ SlotOf(resp) \in Slots
    /\ hist[SlotOf(resp)].op = "put"
    /\ hist[SlotOf(resp)].cachedBefore
    /\ ~hist[SlotOf(resp)].clean
    /\ resp.etag = Md5(hist[SlotOf(resp)].payload)

\* C4: after a successful DeleteBucket(B), GetObject(B,K) is NotFound for
\* every key K that had a row in B, and B's root directory is gone.
C4_BucketDeleteCascades ==
    /\ (resp.op = "delete_bucket" /\ resp.status = 204) =>
            BucketDataPath(resp.bucket) \notin dirs
    /\ (resp.op = "get" /\ SlotOf(resp) \in Slots) =>
        LET h == hist[SlotOf(resp)] IN
        (h.op = "delete_bucket" /\ h.clean) => resp.kind = "NotFound"

\* C5: a PutObject that ends in StorageFailure changes no object row, and
\* the blob the slot's row pointed at before the call is still there with
\* the same content.
C5_WriteFailureKeepsState ==
    [][(resp'.op = "put" /\ resp'.kind = "StorageFailure") =>
            /\ objects' = objects
            /\ SlotOf(resp') \in DOMAIN objects =>
                    BlobUnchanged(objects[SlotOf(resp')].storage_path)]_vars

\* C6: a PutObject that ends in MetadataFailure (the upsert failed, the
\* cleanup succeeded) leaves the cache and the rows alone, removes the blob it
\* wrote, and leaves the slot's row and the blob it points at as they were.
C6_UpsertFailureRestoresState ==
    [][(resp'.op = "put" /\ resp'.kind = "MetadataFailure") =>
            /\ cache' = cache
            /\ objects' = objects
            /\ SlotOf(resp') \notin DOMAIN objects =>
                    construct_storage_path(resp'.bucket, resp'.key) \notin DOMAIN files'
            /\ SlotOf(resp') \in DOMAIN objects =>
                    BlobUnchanged(objects[SlotOf(resp')].storage_path)]_vars

\* C7: after a CreateBucket that failed to make the root directory, the
\* bucket has no row.
C7_CreateRollsBack ==
    (resp.op = "create_bucket" /\ resp.kind = "StorageFailure") =>
        resp.bucket \notin buckets

\* C8: a DeleteBucket whose tree removal fails ends in StorageFailure with
\* the bucket row and every object row as they were; and whenever a
\* DeleteBucket removes the row, nothing of the tree is left.
C8_DeleteBucketTreeFirst ==
    [][resp'.op = "delete_bucket" =>
            /\ resp'.kind = "StorageFailure" =>
                /\ buckets' = buckets
                /\ objects' = objects
                /\ resp'.bucket \in buckets'
            /\ (resp'.bucket \in buckets /\ resp'.bucket \notin buckets') =>
                /\ BucketDataPath(resp'.bucket) \notin dirs'
                /\ \A p \in DOMAIN files' :
                        ~IsBelow(p, BucketDataPath(resp'.bucket))]_vars

\* C8's case: the tree removal failed after it had removed a blob, and the
\* bucket still has its row and the blob's object row.
C8_Witness ==
    /\ resp.op = "delete_bucket" /\ resp.kind = "StorageFailure"
    /\ resp.bucket \in buckets
    /\ \E s \in DOMAIN objects :
            /\ s[1] = resp.bucket
            /\ objects[s].storage_path \notin DOMAIN files
            /\ hist[s].op = "put"

\* C9: once a DeleteObject of a slot has succeeded (and no Put since), a
\* GetObject and a further DeleteObject of the slot both end in NotFound.
C9_DeleteThenNotFound ==
    [][\A s \in Slots :
            (/\ hist[s].op = "delete"
             /\ resp'.op \in {"get", "delete"}
             /\ SlotOf(resp') = s) => resp'.kind = "NotFound"]_vars

\* C9's case: the cache held the slot when the Delete began, and a Get of
\* the slot has answered NotFound.
C9_Witness ==
    /\ resp.op = "get" /\ resp.kind = "NotFound"
    /\ SlotOf(resp) \in Slots
    /\ hist[SlotOf(resp)].op = "delete"
    /\ hist[SlotOf(resp)].cachedBefore

\* C10: a DeleteObject whose row delete fails ends in PartialFailure (a 500
\* other than NotFound and StorageFailure) with the row present and the blob
\* absent, and a GetObject of the slot, until a call touches the slot again,
\* ends in Inconsistency.
C10_PartialFailure ==
    /\ (resp.op = "delete" /\ resp.kind = "PartialFailure") =>
        /\ resp.status = 500
        /\ SlotOf(resp) \in DOMAIN objects
        /\ objects[SlotOf(resp)].storage_path \notin DOMAIN files
    /\ (resp.op = "get" /\ SlotOf(resp) \in Slots) =>
        LET h == hist[SlotOf(resp)] IN
        (h.op = "partial" /\ h.clean) =>
            (resp.status = 500 /\ resp.kind = "Inconsistency")

\* C10's case: the row delete failed, and a Get of the slot has answered.
C10_Witness ==
    /\ resp.op = "get" /\ resp.kind = "Inconsistency"
    /\ SlotOf(resp) \in Slots
    /\ hist[SlotOf(resp)].op = "partial"
    /\ hist[SlotOf(resp)].clean
    /\ SlotOf(resp) \in DOMAIN objects

\* C11: a get_object that finds the metadata of (b, k), in the cache or in
\* the objects table, and no file at its storage_path answers 500
\* "inconsistency"; when it returns the cache holds no entry for (b, k) and
\* the objects table is as it was.  A get_object answers "inconsistency"
\* in no other case.
C11_MissingBlobEvicts ==
    [][resp'.op = "get" =>
         LET s == SlotOf(resp')
             known == CacheHas(cache, s) \/ s \in DOMAIN objects
             meta == IF CacheHas(cache, s) THEN CacheValue(cache, s)
                     ELSE RowMeta(objects[s])
             missing == known /\ meta.storage_path \notin DOMAIN files
         IN  /\ missing <=> resp'.kind = "Inconsistency"
             /\ missing =>
                  /\ resp'.status = 500
                  /\ ~CacheHas(cache', s)
                  /\ objects' = objects
                  /\ files' = files]_vars

\* C11 happens: a get_object of a slot that has a row answered
\* "inconsistency", and the cache does not hold the slot.
C11_Witness ==
    /\ resp.op = "get"
    /\ resp.kind = "Inconsistency"
    /\ SlotOf(resp) \in DOMAIN objects
    /\ ~CacheHas(cache, SlotOf(resp))

\* app.py get_object, the handler without the cache: what it answers to
\* GET (b, k) on the table objs and the files fs.
app_get_object(objs, fs, b, k) ==
    LET slot == <<b, k>> IN
    IF slot \notin DOMAIN objs THEN Reply("get", b, k, 404, "NotFound")
    ELSE LET object_meta == RowMeta(objs[slot]) IN
         IF object_meta.storage_path \notin DOMAIN fs
         THEN Reply("get", b, k, 500, "Inconsistency")
         ELSE [Reply("get", b, k, 200, "OK") EXCEPT
                   !.body = ReadLoop(fs[object_meta.storage_path], 0, <<>>),
                   !.etag = object_meta.etag,
                   !.size = object_meta.size_bytes,
                   !.ctype = object_meta.content_type]

\* C12: the cache does not change an answer.  The tables, directories and
\* files after any sequence of calls do not depend on the cache (no
\* handler reads it but get_object, which writes nothing else), so the two
\* systems are in the same state but for the cache, and every get_object
\* answers what the handler without the cache answers there: the same
\* status and kind, and on success the same body, size, ETag and content
\* type.
C12_CacheTransparent ==
    [][resp'.op = "get" =>
         resp' = app_get_object(objects, files, resp'.bucket, resp'.key)]_vars

\* C12 happens: a successful get_object of a slot whose last put_object
\* began with the slot in the cache.
C12_Witness ==
    /\ resp.op = "get"
    /\ resp.status = 200
    /\ CacheHas(cache, SlotOf(resp))
    /\ hist[SlotOf(resp)].op = "put"
    /\ hist[SlotOf(resp)].cachedBefore
    /\ hist[SlotOf(resp)].clean

\* C14: a create_bucket of a valid name that answers 201 leaves the bucket
\* row and its root directory, and a head_bucket right after it answers
\* 200; a create_bucket of a name that already has a row does not succeed
\* (409, or 500 when the INSERT raises another error) and leaves the bucket
\* rows, the object rows, the directories and the files as they were; a
\* create_bucket of an empty or all-blank name answers 400 and creates
\* nothing.  A head_bucket answers 200 exactly for the names with a row.
C14_CreateBucketContract ==
    [][/\ resp'.op = "create_bucket" =>
            LET name == resp'.bucket
                blank == name \in {"", " "}
                same == /\ buckets' = buckets /\ objects' = objects
                        /\ dirs' = dirs /\ files' = files /\ cache' = cache
            IN  /\ blank => resp'.kind = "InvalidArgument" /\ same
                /\ resp'.kind = "InvalidArgument" => blank
                /\ (~blank /\ name \in buckets) =>
                       /\ resp'.kind \in {"Conflict", "MetadataFailure"}
                       /\ same
                /\ resp'.kind = "Conflict" => name \in buckets /\ resp'.status = 409
                /\ resp'.status = 201 =>
                       /\ ~blank /\ name \notin buckets
                       /\ name \in buckets'
                       /\ BucketDataPath(name) \in dirs'
       /\ resp'.op = "head_bucket" =>
            /\ resp'.status = 200 <=> resp'.bucket \in buckets
            /\ (resp.op = "create_bucket" /\ resp.status = 201
                /\ resp.bucket = resp'.bucket) => resp'.status = 200]_vars

\* C14 happens: a create_bucket of a bucket that holds an object answered
\* 409.
C14_Witness ==
    /\ resp.op = "create_bucket"
    /\ resp.kind = "Conflict"
    /\ \E s \in DOMAIN objects : s[1] = resp.bucket

\* C15: a put_object to a bucket without a row answers 404, and a
\* put_object of the empty key to a bucket with a row answers 400; both
\* leave the bucket rows, the object rows, the directories, the files and
\* the cache as they were.  (The bucket is looked up first: the empty key
\* in a bucket without a row answers 404.)
C15_PutValidatesFirst ==
    [][resp'.op = "put" =>
         LET b == resp'.bucket
             k == resp'.key
             same == /\ buckets' = buckets /\ objects' = objects
                     /\ dirs' = dirs /\ files' = files /\ cache' = cache
         IN  /\ b \notin buckets =>
                   resp'.status = 404 /\ resp'.kind = "NotFound" /\ same
             /\ (b \in buckets /\ k = <<>>) =>
                   resp'.status = 400 /\ resp'.kind = "InvalidArgument" /\ same
             /\ resp'.kind = "NotFound" => b \notin buckets
             /\ resp'.kind = "InvalidArgument" => k = <<>>]_vars

\* C15 happens: a put_object of the empty key to a bucket that holds an
\* object answered 400.
C15_Witness ==
    /\ resp.op = "put"
    /\ resp.kind = "InvalidArgument"
    /\ resp.key = <<>>
    /\ \E s \in DOMAIN objects : s[1] = resp.bucket /\ s[1] \in buckets

\* The position of the last get_object of slot s in the log (0: none).
LastAccess(s) ==
    LET at == {i \in 1..Len(accessed) : accessed[i] = s} IN
    IF at = {} THEN 0 ELSE CHOOSE i \in at : \A j \in at : j <= i

\* C13: the cache never holds more than CacheSize entries; it holds
\* exactly the CacheSize most recently accessed slots (all the accessed
\* ones while they are fewer), so that the insert of one more slot evicts
\* the least recently accessed one and no other, and a hit, which makes the
\* slot the most recently accessed, keeps it from being the next evicted;
\* the cache lists its slots from the least to the most recently accessed.
C13_LruEviction ==
    /\ Len(cache) <= CacheSize
    /\ \A s \in LruSlots :
         CacheHas(cache, s) <=>
            /\ LastAccess(s) > 0
            /\ Cardinality({u \in LruSlots : LastAccess(u) > LastAccess(s)}) < CacheSize
    /\ \A i, j \in 1..Len(cache) :
         i < j => LastAccess(cache[i].key) < LastAccess(cache[j].key)

\* C13 happens: the cache is full, the slot of the first get_object is
\* still cached because a later hit refreshed it, and a slot first
\* accessed after it has been evicted.
C13_Witness ==
    /\ Len(cache) = CacheSize
    /\ Len(accessed) > CacheSize + 1
    /\ CacheHas(cache, accessed[1])
    /\ \E i \in 2..Len(accessed) :
         /\ ~CacheHas(cache, accessed[i])
         /\ \A j \in 1..(i - 1) : accessed[j] # accessed[i]

\* C16: the content type a successful put_object stores and returns is the
\* Content-Type header when the request has one (not empty); else the
\* upload's own type when it has one that is not application/octet-stream;
\* else the type guessed from the key's extension when there is one; else
\* application/octet-stream.  A get_object returns the stored type, so the
\* get_object after the put_object returns the same value.
C16_ContentTypeResolution ==
    [][LET s == SlotOf(resp')
           generic == "application/octet-stream"
           header == resp'.cct \notin {None, ""}
           sniffed == resp'.uct \notin {None, "", generic}
           guessed == GuessType(resp'.key) # None
       IN
       /\ (resp'.op = "put" /\ resp'.status = 201) =>
            /\ header => resp'.ctype = resp'.cct
            /\ (~header /\ sniffed) => resp'.ctype = resp'.uct
            /\ (~header /\ ~sniffed /\ guessed) => resp'.ctype = GuessType(resp'.key)
            /\ (~header /\ ~sniffed /\ ~guessed) => resp'.ctype = generic
            /\ objects'[s].content_type = resp'.ctype
       /\ (resp'.op = "get" /\ resp'.status = 200) =>
            /\ resp'.ctype = objects[s].content_type
            /\ (resp.op = "put" /\ resp.status = 201 /\ SlotOf(resp) = s) =>
                  resp'.ctype = resp.ctype]_vars

\* C16 happens: a get_object of a key with a known extension returned the
\* upload's own type, stored by a put_object without a Content-Type header.
C16_Witness ==
    /\ resp.op = "get"
    /\ resp.status = 200
    /\ GuessType(resp.key) # None
    /\ resp.ctype = "image/png"

\* Task t took a step of its put_object (a change of its open file alone
\* is the unlink by another task's delete_object).
PutStepOf(t) ==
    /\ "put" \in {inflight[t].op, inflight'[t].op}
    /\ [inflight'[t] EXCEPT !.fd = inflight[t].fd, !.inode = inflight[t].inode]
          # inflight[t]

\* C17: under every interleaving of put_object, get_object and
\* delete_object, a put_object changes the cache in its last step only,
\* the one that has committed its row, and that step leaves no entry for
\* the slot; and in every state, whether the put_object has returned or
\* not, an entry of the cache is a copy of the row the table holds for its
\* slot, never of an older one.
C17_InvalidateAfterCommit ==
    [][/\ \A t \in Tasks :
            PutStepOf(t) =>
               \/ cache' = cache /\ objects' = objects /\ inflight'[t].op = "put"
               \/ /\ inflight'[t].op = "idle"
                  /\ LET s == <<inflight[t].bucket, inflight[t].key>> IN
                     /\ s \in DOMAIN objects'
                     /\ objects'[s].internal_storage_id = inflight[t].id
                     /\ ~CacheHas(cache', s)
       /\ \A i \in 1..Len(cache') :
            /\ cache'[i].key \in DOMAIN objects'
            /\ cache'[i].meta = RowMeta(objects'[cache'[i].key])]_vars

\* C17 happens: a put_object has just returned 201 for a slot that was
\* cached while it was writing: a get_object that began during the upload
\* is still streaming with the metadata of the row before, which differs
\* from the committed row, and the cache holds no entry for the slot.
C17_Witness ==
    /\ resp.op = "put" /\ resp.status = 201
    /\ ~CacheHas(cache, SlotOf(resp))
    /\ \E t \in Tasks :
         /\ inflight[t].op = "get"
         /\ <<inflight[t].bucket, inflight[t].key>> = SlotOf(resp)
         /\ inflight[t].meta # RowMeta(objects[SlotOf(resp)])

\* C18: when no put_object is writing to a storage path, the file there
\* holds one upload in full, never a mixture of the chunks of two.
C18_BlobIsOneUpload ==
    \A path \in DOMAIN files :
        (\A t \in Tasks : ~(inflight[t].op = "put" /\ inflight[t].fd = "path"
                            /\ TaskPath(inflight[t]) = path))
        => files[path] \in ConcPayloads

\* C19: a get_object that has resolved its metadata and then finds the
\* file removed when it comes to read it fails with the 500
\* "inconsistency"; and every get_object that answers 200 delivers
\* exactly size_bytes bytes.
C19_RemovedBlobIsInconsistency ==
    [][/\ \A t \in Tasks :
            (/\ inflight[t].op = "get" /\ inflight[t].pc = "open"
             /\ inflight'[t] # inflight[t]
             /\ inflight[t].meta.storage_path \notin DOMAIN files)
            => resp'.status = 500 /\ resp'.kind = "Inconsistency"
       /\ (resp'.op = "get" /\ resp'.status = 200) => Len(resp'.body) = resp'.size]_vars

\* C20: a get_object that has opened the file and streamed it to its end
\* delivers bytes whose digest is the ETag it returned and whose length is
\* the Content-Length it returned, also when a put_object overwrites the
\* object meanwhile.
C20_BodyMatchesHeaders ==
    [][\A t \in Tasks :
          (/\ inflight[t].op = "get" /\ inflight[t].pc = "read"
           /\ inflight'[t].op = "idle")
          => /\ Md5(resp'.body) = resp'.etag
             /\ Len(resp'.body) = resp'.size]_vars

\* No request is in flight.
Quiescent == \A t \in Tasks : inflight[t].op = "idle"

\* C21: once the put_object and the delete_object of a slot have both
\* returned, the slot has a row together with its blob or neither: with no
\* request in flight, a row without a file at its storage_path is not
\* reachable.
C21_NoRowWithoutBlob ==
    Quiescent =>
       \A s \in DOMAIN objects :
           s[1] \in buckets => objects[s].storage_path \in DOMAIN files

\* C22: when a put_object returns, after a delete_bucket_endpoint of its
\* bucket has returned or before, it leaves no row and no file of its own
\* in a bucket that has no bucket row.
C22_PutLeavesNothingInDeletedBucket ==
    [][\A t \in Tasks :
          (inflight[t].op = "put" /\ inflight'[t].op = "idle") =>
             LET b == inflight[t].bucket
                 s == <<b, inflight[t].key>>
             IN  (s \in DOMAIN objects' \/ TaskPath(inflight[t]) \in DOMAIN files')
                    => b \in buckets']_vars

\* C23: a bucket created again is empty.  After a successful
\* delete_bucket_endpoint of a bucket and a create_bucket of the same
\* name, a get_object of a key that had a row before the deletion and has
\* not been put since answers 404: no row and no cache entry from before
\* the deletion shows through it.
C23_RecreatedBucketIsEmpty ==
    (resp.op = "get" /\ SlotOf(resp) \in Slots /\ resp.bucket \in buckets) =>
        LET h == hist[SlotOf(resp)] IN
        (h.op = "delete_bucket" /\ h.clean) => resp.kind = "NotFound"

\* The directories of the path from a blob up to, not including, the root
\* of its bucket.
PathDirs(path, root) == {d \in {SubSeq(path, 1, i) : i \in 1..(Len(path) - 1)} : IsBelow(d, root)}

\* Directory d holds something else than the chain of directories of
\* path, once the file at path is gone.
HoldsOther(d, path) ==
    \/ \E q \in DOMAIN files : q # path /\ IsBelow(q, d)
    \/ \E e \in dirs : IsBelow(e, d) /\ ~IsBelow(path, e)

\* What delete_object leaves alone: the root directory of the bucket, the
\* directories off the path, the rows and blobs of the other objects.
DeleteFrame(s, path, root) ==
    /\ root \in dirs => root \in dirs'
    /\ \A d \in dirs : d \notin PathDirs(path, root) => d \in dirs'
    /\ dirs' \subseteq dirs
    /\ \A u \in (DOMAIN objects) \ {s} :
         /\ u \in DOMAIN objects' /\ objects'[u] = objects[u]
    /\ \A q \in (DOMAIN files) \ {path} :
         /\ q \in DOMAIN files' /\ files'[q] = files[q]

\* C24 as claimed: after a delete_object that answers 204 and removed the
\* blob, a directory between the blob and the root of the bucket is gone
\* exactly when it held nothing else, the root is still there, and the
\* rows and blobs of the other objects are as they were.
C24_WalkRemovesEveryEmptyDir ==
    [][(resp'.op = "delete" /\ resp'.status = 204) =>
         LET s == SlotOf(resp')
             path == objects[s].storage_path
             root == BucketDataPath(s[1])
         IN  /\ DeleteFrame(s, path, root)
             /\ path \in DOMAIN files =>
                  \A d \in PathDirs(path, root) \cap dirs :
                      d \in dirs' <=> HoldsOther(d, path)
             /\ path \notin DOMAIN files => dirs' = dirs]_vars

\* C24, amended: the same, but an os.rmdir that raises stops the walk
\* without failing the call: then the directories removed are the empty
\* ones from the blob's directory upward, as far as the walk came, and the
\* first directory it could not remove and the ones above it stay.
C24_WalkUntilRmdirFails ==
    [][(resp'.op = "delete" /\ resp'.status = 204) =>
         LET s == SlotOf(resp')
             path == objects[s].storage_path
             root == BucketDataPath(s[1])
             onpath == PathDirs(path, root) \cap dirs
         IN  /\ DeleteFrame(s, path, root)
             /\ path \notin DOMAIN files => dirs' = dirs
             /\ path \in DOMAIN files =>
                  /\ \A d \in onpath : HoldsOther(d, path) => d \in dirs'
                  /\ \A d, e \in onpath :
                       (d \notin dirs' /\ IsBelow(e, d)) => e \notin dirs'
                  /\ resp'.fault \notin {"rmdir", "rmdir_later"} =>
                       \A d \in onpath : d \in dirs' <=> HoldsOther(d, path)
                  /\ resp'.fault \in {"rmdir", "rmdir_later"} =>
                       \E d \in onpath : d \in dirs' /\ ~HoldsOther(d, path)]_vars

\* C24 happens: a delete_object answered 204, its walk removed the blob's
\* directory and stopped below the root at a directory that still holds
\* another object.
C24_Witness ==
    /\ resp.op = "delete" /\ resp.status = 204 /\ resp.fault = "none"
    /\ resp.key = <<"d", "e", "x">>
    /\ <<resp.bucket, "d", "e">> \notin dirs
    /\ <<resp.bucket, "d">> \in dirs
    /\ <<resp.bucket, "d", "y">> \in DOMAIN files
    /\ <<resp.bucket, <<"d", "y">>>> \in DOMAIN objects

\* C25: a delete_object of a slot that has a row but no file at its
\* storage_path is not failed by the missing file: it removes no file and
\* no directory, deletes the row, drops the cache entry and answers 204,
\* so that the slot has neither row nor blob.  (Only a DELETE that is made
\* to raise fails it, with the 500 of the partial failure.)
C25_DeleteWithoutBlob ==
    [][(resp'.op = "delete" /\ SlotOf(resp') \in DOMAIN objects
        /\ objects[SlotOf(resp')].storage_path \notin DOMAIN files) =>
         LET s == SlotOf(resp') IN
         /\ files' = files /\ dirs' = dirs
         /\ resp'.fault \in {"none", "dbdelete"}
         /\ resp'.fault = "dbdelete" <=> resp'.kind = "PartialFailure"
         /\ resp'.fault = "none" =>
              /\ resp'.status = 204
              /\ s \notin DOMAIN objects'
              /\ ~CacheHas(cache', s)
              /\ \A u \in (DOMAIN objects) \ {s} :
                   u \in DOMAIN objects' /\ objects'[u] = objects[u]]_vars

\* C25 happens: a delete_object in which nothing raised answered 204 and
\* left the blob's directory in place, empty: there was no blob to remove,
\* so the walk did not run.
C25_Witness ==
    /\ resp.op = "delete" /\ resp.status = 204 /\ resp.fault = "none"
    /\ resp.key = <<"d", "x">>
    /\ SlotOf(resp) \notin DOMAIN objects
    /\ <<resp.bucket, "d">> \in dirs
    /\ \A q \in DOMAIN files : ~IsBelow(q, <<resp.bucket, "d">>)

\* C26: a delete_object whose os.remove raises answers the 500 of a
\* storage failure; the row of the slot, the cache (with any entry of the
\* slot), the file and the directories are as they were.
C26_RemoveFailureKeepsState ==
    [][(resp'.op = "delete" /\ resp'.fault = "remove") =>
         LET s == SlotOf(resp') IN
         /\ resp'.status = 500 /\ resp'.kind = "StorageFailure"
         /\ s \in DOMAIN objects /\ objects' = objects
         /\ cache' = cache
         /\ objects[s].storage_path \in DOMAIN files
         /\ files' = files /\ dirs' = dirs]_vars

\* C26 happens: a delete_object of a cached slot failed at its os.remove;
\* row, cache entry and blob are there.
C26_Witness ==
    /\ resp.op = "delete" /\ resp.fault = "remove"
    /\ SlotOf(resp) \in DOMAIN objects
    /\ CacheHas(cache, SlotOf(resp))
    /\ objects[SlotOf(resp)].storage_path \in DOMAIN files

\* The metadata a reader gets is that of one put_object, whole.
FromOnePut(meta, written) ==
    \E i \in DOMAIN written : meta = RowMeta(written[i])

\* C27: in every state, with put_object calls to one key in flight, the
\* table has at most one row per (bucket_name, object_key), and every row
\* carries the five values of one put_object.  The upsert of a put_object
\* is one step that leaves its own values in the row of its key and adds a
\* row only when the key had none.  What a reader holds (the metadata of a
\* get_object in flight, a cache entry, the headers of a response) is the
\* metadata of one put_object, never a mixture of two.
C27_OneRowPerKey ==
    [][/\ \A r1, r2 \in objects' :
            (r1.bucket_name = r2.bucket_name /\ r1.object_key = r2.object_key)
               => r1 = r2
       /\ \A r \in objects' :
            /\ r.internal_storage_id \in DOMAIN hist'
            /\ r = hist'[r.internal_storage_id]
       /\ \A t \in Tasks :
            (inflight[t].op = "put" /\ inflight'[t].op = "idle") =>
               LET b == inflight[t].bucket
                   k == inflight[t].key
                   now == SelectObjects(objects', b, k)
               IN  /\ Cardinality(now) = 1
                   /\ \A r \in now :
                        /\ r.internal_storage_id = inflight[t].id
                        /\ r.etag = inflight[t].md5
                        /\ r.size_bytes = inflight[t].size
                        /\ r.storage_path = TaskPath(inflight[t])
                   /\ objects' \ now = objects \ SelectObjects(objects, b, k)
                   /\ Cardinality(objects') =
                         IF SelectObjects(objects, b, k) = {}
                         THEN Cardinality(objects) + 1 ELSE Cardinality(objects)
       /\ \A t \in Tasks :
            inflight'[t].op = "get" => FromOnePut(inflight'[t].meta, hist')
       /\ \A i \in 1..Len(cache') : FromOnePut(cache'[i].meta, hist')
       /\ (resp'.op = "get" /\ resp'.status = 200) =>
            \E i \in DOMAIN hist' :
                /\ resp'.etag = hist'[i].etag
                /\ resp'.size = hist'[i].size_bytes
                /\ resp'.ctype = hist'[i].content_type]_vars

\* C27 happens: a second put_object of a key, with other content, has
\* committed while a get_object that read the first row is in flight; the
\* table holds one row for the key, with the values of the second.
C27_Witness ==
    /\ resp.op = "put" /\ resp.status = 201
    /\ Cardinality(DOMAIN hist) = 2
    /\ Cardinality(objects) = 1
    /\ \A r \in objects : r.etag = resp.etag
    /\ \E t \in Tasks :
         /\ inflight[t].op = "get"
         /\ inflight[t].meta.etag # resp.etag

====
